---- MODULE Spec2Model ----
(***************************************************************************)
(* Model of solar_systems_scrape.py: fetch_all_solar_systems pages through *)
(* GET {base_url}/v2/solarsystems, accumulates name -> id, writes the      *)
(* mapping to a file and returns it; main reports on the returned value.   *)
(*                                                                         *)
(* The server holds a fixed collection of items, item i (0-based) having   *)
(* name NameOf(i, mod) and id IdOf(i).  It answers a request (offset,      *)
(* limit) that succeeds with the items at positions offset ..              *)
(* offset+limit-1 and reports whatever metadata.total and metadata.limit   *)
(* its configuration says.  requests >= 2.27 is assumed, where a body that *)
(* is not JSON raises requests.exceptions.JSONDecodeError, a subclass of   *)
(* RequestException.                                                       *)
(***************************************************************************)
EXTENDS Integers, Sequences, FiniteSets, TLC

\* ---------------------------------------------------------------- bounds
MaxSmall == 3        \* small collection sizes, totals and limits: 0..MaxSmall
MaxOver == 1         \* sizes, totals and limits reach RequestedLimit + MaxOver
MaxFailures == 2     \* failed page requests in one run

\* ------------------------------------------------------ program constants
RequestedLimit == 100      \* params={"limit": 100, "offset": 0}

\* ------------------------------------------------------------ the server
Min(a, b) == IF a < b THEN a ELSE b
Max(a, b) == IF a < b THEN b ELSE a

Sizes == (0..MaxSmall) \cup ((RequestedLimit - 1)..(RequestedLimit + MaxOver))

\* items i and i + mod share a name: two names in all, or all names
\* distinct
NameMods == {2, RequestedLimit + MaxOver + 1}

\* a collection of n items; the total reported is 0, n or off n by one,
\* the limit reported is any size
Servers ==
    {s \in [n : Sizes, mod : NameMods,
            total : 0..(RequestedLimit + MaxOver + 1), limit : Sizes] :
        s.total \in {0, s.n - 1, s.n, s.n + 1}}

NameOf(i, mod) == i % mod
IdOf(i) == i + 1
Item(s, i) == [name |-> NameOf(i, s.mod), id |-> IdOf(i)]

\* body["data"] of a successful answer to (offset o, limit l)
Page(s, o, l) == [k \in 1..Max(0, Min(o + l, s.n) - o) |-> Item(s, o + k - 1)]

\* metadata carried by the responses after the first
LaterMeta(s) == {[total |-> s.total, limit |-> s.limit],
                 [total |-> s.total + 1, limit |-> s.limit + 1]}

RequestErrors == {"connection", "http_status", "json_decode"}
KeyErrors == {"no_metadata", "no_total", "no_limit"}

\* ------------------------------------------------------------- the state
VARIABLES server, pc, solar_systems_mapping, total_systems, limit, offset,
          batch_number, requests, lastReq, firstOutcome, failures, fetched,
          lastPause, reported, file, result, printed

vars == <<server, pc, solar_systems_mapping, total_systems, limit, offset,
          batch_number, requests, lastReq, firstOutcome, failures, fetched,
          lastPause, reported, file, result, printed>>

EmptyMapping == << >>
NoMeta == [total |-> 0, limit |-> 0]
NoRequest == [offset |-> 0, limit |-> 0, outcome |-> "none", meta |-> NoMeta]
NoFile == [state |-> "absent", content |-> EmptyMapping]

\* for system in data: solar_systems_mapping[system["name"]] = system["id"]
\* Every assignment replaces the entry of its key, so after the loop a
\* name of data holds the id of its last item in data and every other key
\* holds what it held before.
Names(data) == {data[k].name : k \in 1..Len(data)}
Occurrences(data, name) == {k \in 1..Len(data) : data[k].name = name}
FirstIndex(data, name) ==
    LET occ == Occurrences(data, name)
    IN  CHOOSE k \in occ : \A j \in occ : k <= j
LastIndex(data, name) ==
    LET occ == Occurrences(data, name)
    IN  CHOOSE k \in occ : \A j \in occ : j <= k

\* variant: a key that is already present keeps its first id
InsertAllKeepsFirst(m, data) ==
    [n \in DOMAIN m \cup Names(data) |->
        IF n \in DOMAIN m THEN m[n] ELSE data[FirstIndex(data, n)].id]
InsertAll(m, data) ==
    [n \in DOMAIN m \cup Names(data) |->
        IF n \in Names(data) THEN data[LastIndex(data, n)].id ELSE m[n]]

\* variants: a loop that stops before a last partial page, and one that
\* runs once more when offset = total
LoopConditionShort == offset + limit < total_systems
LoopConditionInclusive == offset <= total_systems
\* while offset < total_systems
LoopCondition == offset < total_systems

Init ==
    /\ server \in Servers
    /\ pc = "start"
    /\ solar_systems_mapping = EmptyMapping
    /\ total_systems = 0
    /\ limit = 0
    /\ offset = 0
    /\ batch_number = 0
    /\ requests = 0
    /\ lastReq = NoRequest
    /\ firstOutcome = "none"
    /\ failures = 0
    /\ fetched = << >>
    /\ lastPause = "none"
    /\ reported = {}
    /\ file = NoFile
    /\ result = EmptyMapping
    /\ printed = "nothing"

\* ------------------------------------------- the initial request (24-45)
\* requests.get(endpoint, params={"limit": 100, "offset": 0}) succeeds and
\* the body has metadata.total and metadata.limit.  The estimate printed
\* at line 35 divides by limit: limit = 0 raises ZeroDivisionError, which
\* the handler at line 74 does not catch.
InitialOk ==
    /\ pc = "start"
    /\ requests' = requests + 1
    /\ lastReq' = [offset |-> 0, limit |-> RequestedLimit, outcome |-> "ok",
                   meta |-> [total |-> server.total, limit |-> server.limit]]
    /\ firstOutcome' = "ok"
    /\ total_systems' = server.total
    /\ limit' = server.limit
    /\ IF server.limit = 0
          THEN /\ pc' = "raised"
               /\ UNCHANGED <<solar_systems_mapping, fetched, offset,
                              batch_number>>
          ELSE /\ solar_systems_mapping' =
                     InsertAll(solar_systems_mapping,
                               Page(server, 0, RequestedLimit))
               /\ fetched' = Page(server, 0, RequestedLimit)
               /\ offset' = server.limit
               /\ batch_number' = 2
               /\ pc' = "loop"
    /\ UNCHANGED <<server, failures, lastPause, reported, file, result,
                   printed>>

\* (a variant that writes the empty mapping to the file before returning)
InitialRequestExceptionWritesFile(kind) ==
    /\ pc = "start"
    /\ requests' = requests + 1
    /\ lastReq' = [offset |-> 0, limit |-> RequestedLimit, outcome |-> kind,
                   meta |-> NoMeta]
    /\ firstOutcome' = kind
    /\ reported' = reported \cup {"initial_error"}
    /\ file' = [state |-> "written", content |-> EmptyMapping]
    /\ result' = EmptyMapping
    /\ pc' = "returned"
    /\ UNCHANGED <<server, solar_systems_mapping, total_systems, limit,
                   offset, batch_number, failures, fetched, lastPause,
                   printed>>
\* the request, raise_for_status or response.json() raises a
\* RequestException: except at line 74, return {}
InitialRequestException(kind) ==
    /\ pc = "start"
    /\ requests' = requests + 1
    /\ lastReq' = [offset |-> 0, limit |-> RequestedLimit, outcome |-> kind,
                   meta |-> NoMeta]
    /\ firstOutcome' = kind
    /\ reported' = reported \cup {"initial_error"}
    /\ result' = EmptyMapping
    /\ pc' = "returned"
    /\ UNCHANGED <<server, solar_systems_mapping, total_systems, limit,
                   offset, batch_number, failures, fetched, lastPause, file,
                   printed>>

\* data["metadata"]["total"] or data["metadata"]["limit"] raises KeyError,
\* which is not a RequestException: it leaves the function and main
InitialKeyError(kind) ==
    /\ pc = "start"
    /\ requests' = requests + 1
    /\ lastReq' = [offset |-> 0, limit |-> RequestedLimit, outcome |-> kind,
                   meta |-> NoMeta]
    /\ firstOutcome' = kind
    /\ pc' = "raised"
    /\ UNCHANGED <<server, solar_systems_mapping, total_systems, limit,
                   offset, batch_number, failures, fetched, lastPause,
                   reported, file, result, printed>>

\* --------------------------------------------------- the loop (47-72)
\* one iteration whose request succeeds; meta is the metadata of the
\* response, which the loop does not read
\* (first a variant that takes total and limit from each response)
PageOkRereads(meta) ==
    /\ pc = "loop"
    /\ LoopCondition
    /\ requests' = requests + 1
    /\ lastReq' = [offset |-> offset, limit |-> limit, outcome |-> "ok",
                   meta |-> meta]
    /\ solar_systems_mapping' =
          InsertAll(solar_systems_mapping, Page(server, offset, limit))
    /\ fetched' = fetched \o Page(server, offset, limit)
    /\ total_systems' = meta.total
    /\ limit' = meta.limit
    /\ offset' = offset + meta.limit
    /\ batch_number' = batch_number + 1
    /\ lastPause' = "short"
    /\ UNCHANGED <<server, pc, firstOutcome, failures, reported, file,
                   result, printed>>
PageOk(meta) ==
    /\ pc = "loop"
    /\ LoopCondition
    /\ requests' = requests + 1
    /\ lastReq' = [offset |-> offset, limit |-> limit, outcome |-> "ok",
                   meta |-> meta]
    /\ solar_systems_mapping' =
          InsertAll(solar_systems_mapping, Page(server, offset, limit))
    /\ fetched' = fetched \o Page(server, offset, limit)
    /\ offset' = offset + limit
    /\ batch_number' = batch_number + 1
    /\ lastPause' = "short"
    /\ UNCHANGED <<server, pc, total_systems, limit, firstOutcome, failures,
                   reported, file, result, printed>>

\* one iteration whose request raises a RequestException: report, sleep 5
\* seconds, continue
\* (variants: one that sleeps the short delay after the failure, one that
\* has stored the first item of the page before the failure shows)
PageFailShortPause(kind) ==
    /\ pc = "loop"
    /\ LoopCondition
    /\ failures < MaxFailures
    /\ requests' = requests + 1
    /\ lastReq' = [offset |-> offset, limit |-> limit, outcome |-> kind,
                   meta |-> NoMeta]
    /\ failures' = failures + 1
    /\ reported' = reported \cup {"batch_error"}
    /\ lastPause' = "short"
    /\ UNCHANGED <<server, pc, solar_systems_mapping, total_systems, limit,
                   offset, batch_number, firstOutcome, fetched, file, result,
                   printed>>
PageFailPartialInsert(kind) ==
    /\ pc = "loop"
    /\ LoopCondition
    /\ failures < MaxFailures
    /\ requests' = requests + 1
    /\ lastReq' = [offset |-> offset, limit |-> limit, outcome |-> kind,
                   meta |-> NoMeta]
    /\ failures' = failures + 1
    /\ reported' = reported \cup {"batch_error"}
    /\ lastPause' = "long"
    /\ solar_systems_mapping' =
          InsertAll(solar_systems_mapping, Page(server, offset, 1))
    /\ UNCHANGED <<server, pc, total_systems, limit, offset, batch_number,
                   firstOutcome, fetched, file, result, printed>>
\* (first a variant that moves on to the next page after the failure)
PageFailSkips(kind) ==
    /\ pc = "loop"
    /\ LoopCondition
    /\ failures < MaxFailures
    /\ requests' = requests + 1
    /\ lastReq' = [offset |-> offset, limit |-> limit, outcome |-> kind,
                   meta |-> NoMeta]
    /\ failures' = failures + 1
    /\ reported' = reported \cup {"batch_error"}
    /\ lastPause' = "long"
    /\ offset' = offset + limit
    /\ UNCHANGED <<server, pc, solar_systems_mapping, total_systems, limit,
                   batch_number, firstOutcome, fetched, file, result,
                   printed>>
PageFail(kind) ==
    /\ pc = "loop"
    /\ LoopCondition
    /\ failures < MaxFailures
    /\ requests' = requests + 1
    /\ lastReq' = [offset |-> offset, limit |-> limit, outcome |-> kind,
                   meta |-> NoMeta]
    /\ failures' = failures + 1
    /\ reported' = reported \cup {"batch_error"}
    /\ lastPause' = "long"
    /\ UNCHANGED <<server, pc, solar_systems_mapping, total_systems, limit,
                   offset, batch_number, firstOutcome, fetched, file, result,
                   printed>>

\* the loop condition is false: fall through to line 78
LoopExit ==
    /\ pc = "loop"
    /\ ~LoopCondition
    /\ pc' = "save"
    /\ UNCHANGED <<server, solar_systems_mapping, total_systems, limit,
                   offset, batch_number, requests, lastReq, firstOutcome,
                   failures, fetched, lastPause, reported, file, result,
                   printed>>

\* ------------------------------------------- save and return (80-88)
SaveOk ==
    /\ pc = "save"
    /\ file' = [state |-> "written", content |-> solar_systems_mapping]
    /\ result' = solar_systems_mapping
    /\ pc' = "returned"
    /\ UNCHANGED <<server, solar_systems_mapping, total_systems, limit,
                   offset, batch_number, requests, lastReq, firstOutcome,
                   failures, fetched, lastPause, reported, printed>>

\* open() or json.dump raises IOError: reported, the mapping is returned.
\* A failure of open leaves the file as it was, a failure while writing
\* leaves a truncated file.
\* (First a variant that returns an empty mapping after the failure.)
SaveIOErrorLosesMapping(stage) ==
    /\ pc = "save"
    /\ file' = IF stage = "open" THEN file
               ELSE [state |-> "partial", content |-> EmptyMapping]
    /\ reported' = reported \cup {"save_error"}
    /\ result' = EmptyMapping
    /\ pc' = "returned"
    /\ UNCHANGED <<server, solar_systems_mapping, total_systems, limit,
                   offset, batch_number, requests, lastReq, firstOutcome,
                   failures, fetched, lastPause, printed>>
SaveIOError(stage) ==
    /\ pc = "save"
    /\ file' = IF stage = "open" THEN file
               ELSE [state |-> "partial", content |-> EmptyMapping]
    /\ reported' = reported \cup {"save_error"}
    /\ result' = solar_systems_mapping
    /\ pc' = "returned"
    /\ UNCHANGED <<server, solar_systems_mapping, total_systems, limit,
                   offset, batch_number, requests, lastReq, firstOutcome,
                   failures, fetched, lastPause, printed>>

\* ------------------------------------------------------- main (98-111)
\* if mapping: success summary, else "Failed to create mapping."
MainReport ==
    /\ pc = "returned"
    /\ printed' = IF result # EmptyMapping THEN "success" ELSE "failed"
    /\ pc' = "exit"
    /\ UNCHANGED <<server, solar_systems_mapping, total_systems, limit,
                   offset, batch_number, requests, lastReq, firstOutcome,
                   failures, fetched, lastPause, reported, file, result>>

Next ==
    \/ InitialOk
    \/ \E kind \in RequestErrors : InitialRequestException(kind)
    \/ \E kind \in KeyErrors : InitialKeyError(kind)
    \/ \E meta \in LaterMeta(server) : PageOk(meta)
    \/ \E kind \in RequestErrors : PageFail(kind)
    \/ LoopExit
    \/ SaveOk
    \/ \E stage \in {"open", "write"} : SaveIOError(stage)
    \/ MainReport

Spec == Init /\ [][Next]_vars

TypeOK ==
    /\ pc \in {"start", "loop", "save", "returned", "raised", "exit"}
    /\ requests \in Nat
    /\ failures \in 0..MaxFailures
    /\ offset \in Nat

\* ------------------------------------------------------------ properties
InitialSucceeded == firstOutcome = "ok"
Returned == pc \in {"returned", "exit"}
Completed == InitialSucceeded /\ Returned

Ceil(a, b) == (a + b - 1) \div b

\* every item of the collection has its name in m, with the id of an item
\* of that name
Complete(m) ==
    \A i \in 0..(server.n - 1) :
        /\ NameOf(i, server.mod) \in DOMAIN m
        /\ \E j \in 0..(server.n - 1) :
              /\ NameOf(j, server.mod) = NameOf(i, server.mod)
              /\ m[NameOf(i, server.mod)] = IdOf(j)

\* what a run without failed requests fetches from server s and returns:
\* the first page, then the pages at limit, 2*limit, ... below total
NoFailureOffset(s) == s.limit * Max(1, Ceil(s.total, s.limit))
NoFailureFetched(s) ==
    Page(s, 0, RequestedLimit)
        \o Page(s, s.limit, NoFailureOffset(s) - s.limit)
NoFailureResult(s) == InsertAll(EmptyMapping, NoFailureFetched(s))

\* C1 as stated: when the initial request succeeds against the static,
\* slice-answering server, the returned mapping holds the name of every
\* item of the collection, mapped to the id of an item of that name.
\* metadata.total is taken to be what section 3 says it is, the number of
\* items of the collection; metadata.limit is whatever the server reports.
C1_Original == (Completed /\ server.total = server.n) => Complete(result)

\* C1 amended: the same, when the first response reports a total that is
\* at least the size of the collection and a limit that is at most the
\* limit of the first request.
C1_Completeness ==
    (Completed /\ server.total >= server.n /\ server.limit <= RequestedLimit)
        => Complete(result)

C1_Witness ==
    /\ Completed
    /\ server.n > RequestedLimit
    /\ server.total >= server.n
    /\ server.limit < RequestedLimit
    /\ failures > 0
    /\ Complete(result)

\* C2: whenever the initial request fails (transport error, HTTP status,
\* malformed JSON or missing metadata keys) the function returns the empty
\* mapping, no error leaves it and no file is written.
C2_InitialFailureReturnsEmpty ==
    (firstOutcome \in RequestErrors \cup KeyErrors)
        => /\ pc \in {"returned", "exit"}
           /\ result = EmptyMapping
           /\ file = NoFile

\* C3: an empty returned mapping implies that the initial request failed.
C3_EmptyImpliesInitialFailure ==
    (Returned /\ result = EmptyMapping) => ~InitialSucceeded

\* C4: a loop iteration requests the current offset; the offset moves, by
\* limit, only in an iteration whose request succeeded and whose items
\* were inserted; a failed request leaves it, and the request that follows
\* a failed one is at the same offset.
C4_NeverSkipsPage ==
    [][(pc = "loop" /\ pc' = "loop")
         => /\ (requests' = requests + 1) => lastReq'.offset = offset
            /\ (offset' # offset)
                 => /\ requests' = requests + 1
                    /\ lastReq'.outcome = "ok"
                    /\ offset' = offset + limit
                    /\ Names(Page(server, offset, limit))
                          \subseteq DOMAIN solar_systems_mapping'
            /\ (requests' = requests + 1
                   /\ lastReq'.outcome \in RequestErrors)
                 => offset' = offset
            /\ (requests' = requests + 1 /\ requests >= 2
                   /\ lastReq.outcome \in RequestErrors)
                 => lastReq'.offset = lastReq.offset]_vars

C4_Witness ==
    /\ pc = "loop"
    /\ failures = MaxFailures
    /\ requests >= 2 + MaxFailures
    /\ lastReq.outcome = "ok"
    /\ lastReq.offset > server.limit
    /\ offset = lastReq.offset + limit

\* C5: a completed run returns the mapping of the run without failures,
\* however many page requests failed on the way.
C5_IdempotentRecovery == Completed => result = NoFailureResult(server)

C5_Witness ==
    /\ Completed
    /\ failures > 0
    /\ requests > 2 + failures
    /\ server.n > RequestedLimit
    /\ result = NoFailureResult(server)
    /\ result # EmptyMapping

\* C6 as stated: a completed run without failed requests has issued
\* ceil(total / limit) requests.
C6_Original ==
    (Completed /\ failures = 0)
        => requests = Ceil(total_systems, limit)

\* C6 amended: for limit >= 1, a completed run without failed requests
\* has issued max(1, ceil(total / limit)) requests.
C6_RequestCount ==
    (Completed /\ failures = 0 /\ limit >= 1)
        => requests = Max(1, Ceil(total_systems, limit))

C6_Witness ==
    /\ Completed
    /\ failures = 0
    /\ limit >= 2
    /\ total_systems % limit # 0
    /\ requests = Ceil(total_systems, limit)
    /\ requests >= 3

\* C7: once the initial request has succeeded the run is in the loop or
\* has left it with offset >= total; it does not end any other way.
C7_Trichotomy ==
    InitialSucceeded
        => \/ pc = "loop"
           \/ /\ pc \in {"save", "returned", "exit"}
              /\ offset >= total_systems

\* C8: after the first response total_systems and limit keep the values
\* of that response; every later request carries that limit, the offset
\* moves by that limit and the loop runs while offset is below that total,
\* whatever metadata the later responses carry.
C8_MetadataCapturedOnce ==
    [][InitialSucceeded
         => /\ total_systems' = server.total
            /\ limit' = server.limit
            /\ total_systems' = total_systems
            /\ limit' = limit
            /\ (requests' = requests + 1)
                 => /\ lastReq'.limit = server.limit
                    /\ offset < server.total
                    /\ offset' \in {offset, offset + server.limit}
            /\ (pc = "loop" /\ pc' = "save") => offset >= server.total]_vars

C8_Witness ==
    /\ pc = "loop"
    /\ requests >= 3
    /\ lastReq.outcome = "ok"
    /\ lastReq.meta.total # server.total
    /\ lastReq.meta.limit # server.limit
    /\ total_systems = server.total
    /\ limit = server.limit

\* C9: the mapping of a completed run has one entry per name seen in the
\* fetched pages, holding the id of the last item of that name in fetch
\* order.
C9_LastWriteWins ==
    Completed
        => /\ DOMAIN result = Names(fetched)
           /\ \A n \in DOMAIN result :
                 result[n] = fetched[LastIndex(fetched, n)].id

C9_Witness ==
    /\ Completed
    /\ server.mod = 2
    /\ server.n > RequestedLimit
    /\ server.total >= server.n
    /\ server.limit \in 2..MaxSmall
    /\ Len(fetched) > RequestedLimit
    /\ DOMAIN result = {0, 1}
    /\ result[NameOf(server.n - 1, 2)] = IdOf(server.n - 1)
    /\ result[NameOf(server.n - 2, 2)] = IdOf(server.n - 2)

\* C10: when writing the file fails the function still returns, with the
\* accumulated mapping, the one a successful write would have returned.
C10_SaveFailureNonFatal ==
    ("save_error" \in reported)
        => /\ Returned
           /\ result = solar_systems_mapping
           /\ result = InsertAll(EmptyMapping, fetched)

C10_Witness ==
    /\ "save_error" \in reported
    /\ Returned
    /\ file.state # "written"
    /\ result = solar_systems_mapping
    /\ result # EmptyMapping

\* C11: main prints the success summary exactly when the run succeeded,
\* and when it prints the failure message the initial request had failed
\* and the run produced no file.
C11_MainReport ==
    (pc = "exit")
        => /\ (printed = "success") <=> InitialSucceeded
           /\ (printed = "failed") => (~InitialSucceeded /\ file = NoFile)

\* C12: when the first response reports total = 0 (for a collection that
\* has no items) the initial request is the only request, the loop body
\* never runs and the function returns the empty mapping.
C12_TotalZero ==
    (InitialSucceeded /\ server.total = 0 /\ server.n = 0)
        => /\ requests = 1
           /\ fetched = << >>
           /\ pc \in {"loop", "save", "returned", "exit"}
           /\ batch_number = 2
           /\ Returned => result = EmptyMapping

\* C13: while no request has failed, request number k (from 0) is at
\* offset k * limit: 0, limit, 2*limit, ..., each above the one before;
\* every request after the first is below total and carries the limit of
\* the first response, the first carries the requested limit; the loop is
\* left only when the next multiple is not below total; and when total is
\* the number of items the mapping has at most total entries.
C13_OffsetsInOrder ==
    [][(failures' = 0)
         => /\ (requests' = requests + 1)
                 => /\ lastReq'.offset = requests * limit'
                    /\ (requests = 0) => lastReq'.limit = RequestedLimit
                    /\ (requests >= 1)
                         => /\ lastReq'.offset > lastReq.offset
                            /\ lastReq'.offset < total_systems
                            /\ lastReq'.limit = server.limit
            /\ (pc = "loop" /\ pc' = "save")
                 => requests * limit >= total_systems
            /\ (InitialSucceeded' /\ server.total = server.n)
                 => Cardinality(DOMAIN solar_systems_mapping')
                       <= total_systems']_vars

C13_Witness ==
    /\ Completed
    /\ failures = 0
    /\ requests >= 3
    /\ limit # RequestedLimit
    /\ lastReq.limit = limit
    /\ lastReq.offset = (requests - 1) * limit
    /\ lastReq.offset < total_systems

\* C14: a loop iteration whose request failed ends with the long pause,
\* one whose request succeeded ends with the short pause, and the run
\* pauses nowhere else.
C14_PauseOrder ==
    [][/\ (pc = "loop" /\ requests' = requests + 1)
            => /\ (lastReq'.outcome \in RequestErrors) => lastPause' = "long"
               /\ (lastReq'.outcome = "ok") => lastPause' = "short"
               /\ lastPause' \in {"short", "long"}
       /\ (pc # "loop" \/ requests' = requests) => lastPause' = lastPause
       /\ (requests = 0) => lastPause' = "none"]_vars

C14_Witness ==
    /\ pc = "loop"
    /\ failures = MaxFailures
    /\ lastReq.outcome = "ok"
    /\ lastPause = "short"
    /\ requests >= 3 + MaxFailures

\* C15: a loop iteration whose request failed leaves the mapping, the
\* offset and the batch number as they were; nothing of it is stored.
C15_FailedPageFrame ==
    [][(pc = "loop" /\ requests' = requests + 1
           /\ lastReq'.outcome \in RequestErrors)
         => /\ solar_systems_mapping' = solar_systems_mapping
            /\ offset' = offset
            /\ batch_number' = batch_number
            /\ fetched' = fetched]_vars

C15_Witness ==
    /\ pc = "loop"
    /\ lastReq.outcome \in RequestErrors
    /\ offset = lastReq.offset
    /\ batch_number >= 3
    /\ Page(server, offset, limit) # << >>
    /\ Names(Page(server, offset, 1)) \cap DOMAIN solar_systems_mapping = {}

\* C16 as stated: the file is written only by a run that has left the loop
\* with offset >= total, and then holds the mapping that is returned.
C16_Original ==
    (file # NoFile)
        => /\ Completed
           /\ offset >= total_systems
           /\ file.state = "written"
           /\ file.content = result

\* C16 amended: the file changes at most once, in the step that follows
\* the exit of the loop with offset >= total; a write that succeeds
\* leaves the mapping that is returned, a write that fails part-way
\* leaves a truncated file; while pages remain, while retrying, and after
\* an abort or an error there is no file.
C16_NoPartialPersistence ==
    [][/\ (file' # file)
            => /\ file = NoFile
               /\ pc = "save"
               /\ pc' = "returned"
               /\ offset >= total_systems
               /\ file'.state \in {"written", "partial"}
               /\ (file'.state = "written") => file'.content = result'
       /\ (file' # NoFile) => (Completed' /\ offset' >= total_systems')
       /\ (file' = file /\ file # NoFile /\ file.state = "written")
            => file.content = result']_vars

C16_Witness ==
    /\ Completed
    /\ failures > 0
    /\ requests >= 3 + failures
    /\ file.state = "written"
    /\ file.content = result
    /\ result # EmptyMapping

\* C17: for limit > 0 the offset is limit times the number of pages
\* processed so far, batch_number - 1, which is at least one; once the
\* loop is left the offset is the least multiple of limit that is at least
\* limit and at least total.
C17_CursorInvariant ==
    (InitialSucceeded /\ limit > 0)
        => /\ offset = limit * (batch_number - 1)
           /\ batch_number - 1 = requests - failures
           /\ batch_number >= 2
           /\ (pc \in {"save", "returned", "exit"})
                => /\ offset >= total_systems
                   /\ (offset = limit \/ offset - limit < total_systems)

C17_Witness ==
    /\ pc = "save"
    /\ failures > 0
    /\ batch_number >= 4
    /\ limit >= 2
    /\ offset > total_systems
    /\ offset = limit * (batch_number - 1)

====
